---- MODULE Spec2Model ----
(***************************************************************************)
(* TrajMap: the render pipeline (preprocess, bounds, zoom, tile grid,      *)
(* fetch, stitch and crop, project, format) as a state machine.            *)
(*                                                                         *)
(* Numbers.  The TypeScript code computes in IEEE doubles; the model       *)
(* computes in exact rationals <<n, d>> (d > 0, lowest terms).  Latitudes  *)
(* and longitudes are degrees.  NaN and the infinities are carried only    *)
(* where the code can produce them (the zoom level, a projected pixel).    *)
(*                                                                         *)
(* Mercator.  The ordinate log(tan(pi/4 + lat/2)) is carried in "Mercator  *)
(* degrees" (radians * 180/pi, so the Web-Mercator square is [-180,180]    *)
(* on both axes) and is interpolated linearly between the knots MercKnots: *)
(* odd, strictly increasing and convex on [0,90] like the function itself. *)
(***************************************************************************)
EXTENDS Integers, Sequences, FiniteSets, TLC

----------------------------------------------------------------------------
(* Exact arithmetic standing for the doubles of the code *)

\* An operator that uses an operand more than once binds it first, as the element of
\* a one-element set, so that the operand is computed once.
Abs(x) == (CHOOSE r \in { IF v < 0 THEN -v ELSE v : v \in {x} } : TRUE)

RECURSIVE Gcd(_, _)
Gcd(a, b) == (CHOOSE r \in { IF y = 0 THEN x ELSE Gcd(y, x % y) : x \in {a}, y \in {b} } : TRUE)

Rat(n, d) ==
  (CHOOSE r \in { LET g == Gcd(Abs(x), Abs(y))
            s == IF y < 0 THEN -1 ELSE 1
        IN  <<(s * x) \div g, (s * y) \div g>> : x \in {n}, y \in {d} } : TRUE)

R(n) == <<n, 1>>
\* sums and comparisons go through the least common denominator, which keeps the
\* intermediate integers small
RAdd(a, b) ==
  (CHOOSE r \in { LET g == Gcd(x[2], y[2])
        IN  Rat(x[1] * (y[2] \div g) + y[1] * (x[2] \div g), (x[2] \div g) * y[2]) :
        x \in {a}, y \in {b} } : TRUE)
RNeg(a) == (CHOOSE r \in { <<-x[1], x[2]>> : x \in {a} } : TRUE)
RSub(a, b) == RAdd(a, RNeg(b))
RMul(a, b) ==
  (CHOOSE r \in { LET g1 == Gcd(Abs(x[1]), y[2])
            g2 == Gcd(Abs(y[1]), x[2])
        IN  Rat((x[1] \div g1) * (y[1] \div g2), (x[2] \div g2) * (y[2] \div g1)) :
        x \in {a}, y \in {b} } : TRUE)
RDiv(a, b) == (CHOOSE r \in { RMul(a, Rat(y[2], y[1])) : y \in {b} } : TRUE)
RLt(a, b) ==
  (CHOOSE r \in { LET g == Gcd(x[2], y[2]) IN x[1] * (y[2] \div g) < y[1] * (x[2] \div g) :
        x \in {a}, y \in {b} } : TRUE)
RLe(a, b) ==
  (CHOOSE r \in { LET g == Gcd(x[2], y[2]) IN x[1] * (y[2] \div g) <= y[1] * (x[2] \div g) :
        x \in {a}, y \in {b} } : TRUE)
RMin(a, b) == (CHOOSE r \in { IF RLt(y, x) THEN y ELSE x : x \in {a}, y \in {b} } : TRUE)
RMax(a, b) == (CHOOSE r \in { IF RLt(x, y) THEN y ELSE x : x \in {a}, y \in {b} } : TRUE)
RAbs(a) == (CHOOSE r \in { <<Abs(x[1]), x[2]>> : x \in {a} } : TRUE)
RFloor(a) == (CHOOSE r \in { x[1] \div x[2] : x \in {a} } : TRUE)
RCeil(a) == (CHOOSE r \in { -((-x[1]) \div x[2]) : x \in {a} } : TRUE)
RRound(a) == RFloor(RAdd(a, <<1, 2>>))

RECURSIVE Pow2(_)
Pow2(k) == IF k = 0 THEN 1 ELSE 2 * Pow2(k - 1)

----------------------------------------------------------------------------
(* MercatorUtil: degrees <-> Mercator ordinate *)

MercKnots == << <<0, 0>>, <<40, 45>>, <<65, 90>>, <<80, 135>>, <<85, 180>>, <<90, 720>> >>

MercDefined(lat) == RLe(R(-90), lat) /\ RLe(lat, R(90))

RECURSIVE MercUp(_, _)
MercUp(lat, i) ==
  LET a == MercKnots[i]
      b == MercKnots[i + 1]
  IN  IF RLe(lat, R(b[1])) \/ i + 1 = Len(MercKnots)
      THEN RAdd(R(a[2]), RMul(RSub(lat, R(a[1])), Rat(b[2] - a[2], b[1] - a[1])))
      ELSE MercUp(lat, i + 1)

MercY(lat) == IF lat[1] < 0 THEN RNeg(MercUp(RNeg(lat), 1)) ELSE MercUp(lat, 1)

RECURSIVE MercDown(_, _)
MercDown(y, i) ==
  LET a == MercKnots[i]
      b == MercKnots[i + 1]
  IN  IF RLe(y, R(b[2]))
      THEN RAdd(R(a[1]), RMul(RSub(y, R(a[2])), Rat(b[1] - a[1], b[2] - a[2])))
      ELSE IF i + 1 = Len(MercKnots) THEN R(b[1]) ELSE MercDown(y, i + 1)

MercLat(y) == IF y[1] < 0 THEN RNeg(MercDown(RNeg(y), 1)) ELSE MercDown(y, 1)

latLngToMeters(latLng) == [x |-> latLng.lng, y |-> MercY(latLng.lat)]
metersToLatLng(x, y) == [lat |-> MercLat(y), lng |-> x]


----------------------------------------------------------------------------
(* PolylineUtil: a polyline string is the sequence of its character codes *)

Precision == 100000

\* polyline.charCodeAt(index) - 63, index counted from 1; NaN past the end acts as 0 below
CharAt(polyline, index) == IF index <= Len(polyline) THEN polyline[index] - 63 ELSE 0

\* one do-while loop of decode: [result, index]; chunks occupy disjoint bits, so |= adds
RECURSIVE DecodeChunks(_, _, _, _)
DecodeChunks(polyline, index, shift, result) ==
  LET b == CharAt(polyline, index)
      r == result + (b % 32) * Pow2(shift)
  IN  IF b >= 32 THEN DecodeChunks(polyline, index + 1, shift + 5, r)
      ELSE [result |-> r, index |-> index + 1]

\* Delta without the sign bit
DeltaUnsigned(result) == result \div 2

\* (result & 1) !== 0 ? ~(result >> 1) : (result >> 1)
Delta(result) == IF result % 2 # 0 THEN -(result \div 2) - 1 ELSE result \div 2

RECURSIVE DecodeFrom(_, _, _, _)
DecodeFrom(polyline, index, lat, lng) ==
  IF index > Len(polyline) THEN <<>>
  ELSE LET a == DecodeChunks(polyline, index, 0, 0)
           o == DecodeChunks(polyline, a.index, 0, 0)
           newLat == lat + Delta(a.result)
           newLng == lng + Delta(o.result)
       IN  <<[lat |-> Rat(newLat, Precision), lng |-> Rat(newLng, Precision)]>>
           \o DecodeFrom(polyline, o.index, newLat, newLng)

decode(polyline) == DecodeFrom(polyline, 1, 0, 0)

RECURSIVE EncodeChunks(_)
EncodeChunks(value) ==
  IF value >= 32 THEN <<(32 + (value % 32)) + 63>> \o EncodeChunks(value \div 32)
  ELSE <<value + 63>>

\* value < 0 ? ~(value << 1) : (value << 1), then the 5-bit chunks
encodeValue(value) == EncodeChunks(IF value < 0 THEN -(2 * value) - 1 ELSE 2 * value)

RECURSIVE EncodeFrom(_, _, _, _)
EncodeFrom(points, i, prevLat, prevLng) ==
  IF i > Len(points) THEN <<>>
  ELSE LET lat == RRound(RMul(points[i].lat, R(Precision)))
           lng == RRound(RMul(points[i].lng, R(Precision)))
       IN  encodeValue(lat - prevLat) \o encodeValue(lng - prevLng)
           \o EncodeFrom(points, i + 1, lat, lng)

encode(points) == EncodeFrom(points, 1, 0, 0)

\* !polyline is true of the empty string
validate(polyline) == Len(polyline) # 0 /\ Len(decode(polyline)) > 0

----------------------------------------------------------------------------
(* GeoUtil: the four boundary transforms *)

Undefined == <<>>

RECURSIVE FoldBounds(_, _, _)
FoldBounds(points, i, b) ==
  IF i > Len(points) THEN b
  ELSE FoldBounds(points, i + 1,
         [minLat |-> RMin(b.minLat, points[i].lat), maxLat |-> RMax(b.maxLat, points[i].lat),
          minLng |-> RMin(b.minLng, points[i].lng), maxLng |-> RMax(b.maxLng, points[i].lng)])

\* GeoUtil.calculateBounds; called with a non-empty list only (the caller throws first)
GeoUtil_calculateBounds(points) ==
  FoldBounds(points, 1,
    [minLat |-> points[1].lat, maxLat |-> points[1].lat,
     minLng |-> points[1].lng, maxLng |-> points[1].lng])

expandBufferBounds(bounds, percentage) ==
  LET latRange == RSub(bounds.maxLat, bounds.minLat)
      lngRange == RSub(bounds.maxLng, bounds.minLng)
      avgRange == RDiv(RAdd(latRange, lngRange), R(2))
      expansion == RDiv(RMul(avgRange, R(percentage)), R(100))
  IN  [minLat |-> RSub(bounds.minLat, expansion), maxLat |-> RAdd(bounds.maxLat, expansion),
       minLng |-> RSub(bounds.minLng, expansion), maxLng |-> RAdd(bounds.maxLng, expansion)]

\* trackRegion.width and .height are non-zero integers here (0 makes the ratio 0, Infinity or NaN)
adjustBoundsToAspectRatio(bounds, trackRegion) ==
  LET targetRatio == Rat(trackRegion.width, trackRegion.height)
      heightIsNaN == ~MercDefined(bounds.minLat) \/ ~MercDefined(bounds.maxLat)
      minPoint == latLngToMeters([lat |-> IF heightIsNaN THEN R(0) ELSE bounds.minLat, lng |-> bounds.minLng])
      maxPoint == latLngToMeters([lat |-> IF heightIsNaN THEN R(0) ELSE bounds.maxLat, lng |-> bounds.maxLng])
      widthMeters == RSub(maxPoint.x, minPoint.x)
      heightMeters == RSub(maxPoint.y, minPoint.y)
      \* widthMeters / heightMeters < targetRatio; false when the quotient is NaN or Infinity
      ratioIsLess == /\ ~heightIsNaN
                     /\ heightMeters[1] # 0
                     /\ RLt(RDiv(widthMeters, heightMeters), targetRatio)
      centerLat == RDiv(RAdd(bounds.minLat, bounds.maxLat), R(2))
      centerLng == RDiv(RAdd(bounds.minLng, bounds.maxLng), R(2))
      centerPoint == latLngToMeters([lat |-> centerLat, lng |-> centerLng])
  IN  IF ratioIsLess
      THEN LET newWidthMeters == RMul(heightMeters, targetRatio)
               newMinPoint == metersToLatLng(RSub(centerPoint.x, RDiv(newWidthMeters, R(2))), minPoint.y)
               newMaxPoint == metersToLatLng(RAdd(centerPoint.x, RDiv(newWidthMeters, R(2))), maxPoint.y)
           IN  [minLat |-> bounds.minLat, maxLat |-> bounds.maxLat,
                minLng |-> newMinPoint.lng, maxLng |-> newMaxPoint.lng]
      ELSE LET newHeightMeters == RDiv(widthMeters, targetRatio)
               newMinPoint == metersToLatLng(minPoint.x, RSub(centerPoint.y, RDiv(newHeightMeters, R(2))))
               newMaxPoint == metersToLatLng(maxPoint.x, RAdd(centerPoint.y, RDiv(newHeightMeters, R(2))))
           IN  [minLat |-> newMinPoint.lat, maxLat |-> newMaxPoint.lat,
                minLng |-> bounds.minLng, maxLng |-> bounds.maxLng]

----------------------------------------------------------------------------
(* ValidationUtil *)

Directions == {"upPercent", "downPercent", "leftPercent", "rightPercent"}
NoError == "none"

OutOfRange(value) == value # Undefined /\ (value[1] < 0 \/ RLt(R(1), value))
SetDirections(e) == {f \in Directions : e[f] # Undefined}

\* validateExpansionRegion without the range check of each field
validateExpansionRegionUnranged(e) ==
  IF e = Undefined THEN NoError
  ELSE IF Cardinality(SetDirections(e)) > 1
       THEN "ExpansionRegion can have at most one direction set"
  ELSE NoError

\* the error validateExpansionRegion throws, or NoError
validateExpansionRegion(e) ==
  IF e = Undefined THEN NoError
  ELSE IF \E f \in Directions : OutOfRange(e[f])
       THEN "ExpansionRegion field must be a number between 0 and 1"
  ELSE IF Cardinality(SetDirections(e)) > 1
       THEN "ExpansionRegion can have at most one direction set"
  ELSE NoError

\* expansion.xPercent ? range * expansion.xPercent : 0
Expand(range, pct) == IF pct = Undefined \/ pct[1] = 0 THEN R(0) ELSE RMul(range, pct)

\* [err, bounds]: applyExpansionRegion validates again before it moves the edges
applyExpansionRegion(bounds, expansion) ==
  IF expansion = Undefined THEN [err |-> NoError, bounds |-> bounds]
  ELSE IF validateExpansionRegion(expansion) # NoError
       THEN [err |-> validateExpansionRegion(expansion), bounds |-> bounds]
  ELSE LET latRange == RSub(bounds.maxLat, bounds.minLat)
           lngRange == RSub(bounds.maxLng, bounds.minLng)
           upExpansion == Expand(latRange, expansion.upPercent)
           downExpansion == Expand(latRange, expansion.downPercent)
           leftExpansion == Expand(lngRange, expansion.leftPercent)
           rightExpansion == Expand(lngRange, expansion.rightPercent)
       IN  [err |-> NoError,
            bounds |-> [minLat |-> RSub(bounds.minLat, downExpansion),
                        maxLat |-> RAdd(bounds.maxLat, upExpansion),
                        minLng |-> RSub(bounds.minLng, leftExpansion),
                        maxLng |-> RAdd(bounds.maxLng, rightExpansion)]]

----------------------------------------------------------------------------
(* BoundaryService *)

\* [err, bounds, bound0..bound3]
BoundaryService_calculateBounds(gpsPoints, trackRegion, expansionRegion) ==
  IF Len(gpsPoints) = 0
  THEN [err |-> "Cannot calculate bounds from empty GPS points"]
  ELSE LET bound0 == GeoUtil_calculateBounds(gpsPoints)
           bound1 == expandBufferBounds(bound0, 10)
           bound2 == adjustBoundsToAspectRatio(bound1, trackRegion)
           applied == applyExpansionRegion(bound2, expansionRegion)
       IN  IF applied.err # NoError THEN [err |-> applied.err]
           ELSE [err |-> NoError, bounds |-> applied.bounds,
                 bound0 |-> bound0, bound1 |-> bound1, bound2 |-> bound2,
                 bound3 |-> applied.bounds]

\* the error BoundaryService.validateBounds throws, or NoError; no stage of render calls it
validateBounds(bounds) ==
  IF ~RLt(bounds.minLat, bounds.maxLat) THEN "Invalid latitude bounds: min must be less than max"
  ELSE IF ~RLt(bounds.minLng, bounds.maxLng) THEN "Invalid longitude bounds: min must be less than max"
  ELSE IF RLt(bounds.minLat, R(-90)) \/ RLt(R(90), bounds.maxLat)
       THEN "Latitude bounds must be within -90 to 90 degrees"
  ELSE IF RLt(bounds.minLng, R(-180)) \/ RLt(R(180), bounds.maxLng)
       THEN "Longitude bounds must be within -180 to 180 degrees"
  ELSE NoError

----------------------------------------------------------------------------
(* TileService.calculateOptimalZoom *)

MinZoom == 1
MaxZoom == 18
TileSize == 256
RetinaTileSize == 512
DefaultViewportWidth == 1024
DefaultViewportHeight == 768

\* a JavaScript number that is an integer or NaN
NaN == [nan |-> TRUE, n |-> 0]
Num(n) == [nan |-> FALSE, n |-> n]

\* Math.floor(Math.log2(r)) for a rational r > 0
RECURSIVE Log2Up(_, _)
Log2Up(r, k) == IF r[1] < 2 * r[2] THEN k ELSE Log2Up(Rat(r[1], 2 * r[2]), k + 1)
RECURSIVE Log2Down(_, _)
Log2Down(r, k) == IF r[1] >= r[2] THEN -k ELSE Log2Down(Rat(2 * r[1], r[2]), k + 1)
FloorLog2(r) == IF r[1] >= r[2] THEN Log2Up(r, 0) ELSE Log2Down(r, 0)

\* Math.log2(pixels * 360 / (span * 256)) as [k, r]: the logarithm of r when k = "fin",
\* +Infinity, -Infinity or NaN otherwise; spanIsNaN tells that span itself is NaN
ZoomFor(pixels, span, spanIsNaN) ==
  IF spanIsNaN THEN [k |-> "nan", r |-> R(1)]
  ELSE IF span[1] = 0
       THEN [k |-> IF pixels > 0 THEN "inf" ELSE "nan", r |-> R(1)]
  ELSE LET r == RDiv(R(pixels * 360), RMul(span, R(TileSize)))
       IN  IF r[1] < 0 THEN [k |-> "nan", r |-> R(1)]
           ELSE IF r[1] = 0 THEN [k |-> "ninf", r |-> R(1)]
           ELSE [k |-> "fin", r |-> r]

\* Math.floor(Math.min(a, b))
FloorMin(a, b) ==
  IF a.k = "nan" \/ b.k = "nan" THEN [k |-> "nan", n |-> 0]
  ELSE IF a.k = "ninf" \/ b.k = "ninf" THEN [k |-> "ninf", n |-> 0]
  ELSE IF a.k = "inf" /\ b.k = "inf" THEN [k |-> "inf", n |-> 0]
  ELSE IF a.k = "inf" THEN [k |-> "fin", n |-> FloorLog2(b.r)]
  ELSE IF b.k = "inf" THEN [k |-> "fin", n |-> FloorLog2(a.r)]
  ELSE [k |-> "fin", n |-> FloorLog2(RMin(a.r, b.r))]

\* Math.min(Math.max(zoom, 1), 18): NaN passes through both
Clamp(zoom) ==
  IF zoom.k = "nan" THEN NaN
  ELSE IF zoom.k = "inf" THEN Num(MaxZoom)
  ELSE IF zoom.k = "ninf" THEN Num(MinZoom)
  ELSE Num(IF zoom.n < MinZoom THEN MinZoom ELSE IF zoom.n > MaxZoom THEN MaxZoom ELSE zoom.n)

calculateOptimalZoom(bounds, viewportWidth, viewportHeight) ==
  LET lngSpan == RSub(bounds.maxLng, bounds.minLng)
      zoomForLng == ZoomFor(viewportWidth, lngSpan, FALSE)
      mercIsNaN == ~MercDefined(bounds.minLat) \/ ~MercDefined(bounds.maxLat)
      mercYSpan == IF mercIsNaN THEN R(0)
                   ELSE RAbs(RSub(MercY(bounds.maxLat), MercY(bounds.minLat)))
      zoomForLat == ZoomFor(viewportHeight, mercYSpan, mercIsNaN)
  IN  Clamp(FloorMin(zoomForLng, zoomForLat))

----------------------------------------------------------------------------
(* MercatorUtil: tiles and pixels *)

\* latLngToTile with Math.round in place of Math.floor
latLngToTileRounded(latLng, zoom) ==
  LET n == Pow2(zoom)
  IN  [x |-> RRound(RMul(RDiv(RAdd(latLng.lng, R(180)), R(360)), R(n))),
       y |-> RRound(RMul(RDiv(RSub(R(1), RDiv(MercY(latLng.lat), R(180))), R(2)), R(n)))]

latLngToTile(latLng, zoom) ==
  LET n == Pow2(zoom)
  IN  [x |-> RFloor(RMul(RDiv(RAdd(latLng.lng, R(180)), R(360)), R(n))),
       y |-> RFloor(RMul(RDiv(RSub(R(1), RDiv(MercY(latLng.lat), R(180))), R(2)), R(n)))]

\* tileToBounds with the rows counted from the south
tileToBoundsFromSouth(x, y, zoom) ==
  LET n == Pow2(zoom)
  IN  [minLat |-> MercLat(RMul(R(180), RSub(Rat(2 * y, n), R(1)))),
       maxLat |-> MercLat(RMul(R(180), RSub(Rat(2 * (y + 1), n), R(1)))),
       minLng |-> RSub(RMul(Rat(x, n), R(360)), R(180)),
       maxLng |-> RSub(RMul(Rat(x + 1, n), R(360)), R(180))]

tileToBounds(x, y, zoom) ==
  LET n == Pow2(zoom)
  IN  [minLat |-> MercLat(RMul(R(180), RSub(R(1), Rat(2 * (y + 1), n)))),
       maxLat |-> MercLat(RMul(R(180), RSub(R(1), Rat(2 * y, n)))),
       minLng |-> RSub(RMul(Rat(x, n), R(360)), R(180)),
       maxLng |-> RSub(RMul(Rat(x + 1, n), R(360)), R(180))]

getTileSize(retina) == IF retina THEN RetinaTileSize ELSE TileSize

\* SphericalMercator.px([lng, lat], zoom): the absolute pixel of a point at a zoom level,
\* in the pyramid of 256-pixel tiles or, for retina, 512-pixel tiles
px(lng, lat, zoom, retina) ==
  LET size == getTileSize(retina) * Pow2(zoom)
  IN  [x |-> RMul(R(size), RDiv(RAdd(lng, R(180)), R(360))),
       y |-> RMul(R(size), RDiv(RSub(R(1), RDiv(MercY(lat), R(180))), R(2)))]

\* the double a * b / c; a zero divisor gives NaN <<0, 0>> or an infinity <<1, 0>>, <<-1, 0>>
Scale(a, b, c) ==
  IF c[1] # 0 THEN RDiv(RMul(a, R(b)), c)
  ELSE IF a[1] * b = 0 THEN <<0, 0>>
  ELSE IF a[1] * b > 0 THEN <<1, 0>> ELSE <<-1, 0>>

IsFinite(a) == a[2] # 0

\* geoBoundsToPixelBounds with Math.round on all four edges
geoBoundsToPixelBoundsRounded(targetBounds, imageBounds, imageWidth, imageHeight, zoom, retina) ==
  LET lo == px(targetBounds.minLng, targetBounds.minLat, zoom, retina)
      hi == px(targetBounds.maxLng, targetBounds.maxLat, zoom, retina)
      imageLo == px(imageBounds.minLng, imageBounds.minLat, zoom, retina)
      imageHi == px(imageBounds.maxLng, imageBounds.maxLat, zoom, retina)
  IN  [minX |-> RRound(Scale(RSub(lo.x, imageLo.x), imageWidth, RSub(imageHi.x, imageLo.x))),
       maxX |-> RRound(Scale(RSub(hi.x, imageLo.x), imageWidth, RSub(imageHi.x, imageLo.x))),
       minY |-> RRound(Scale(RSub(hi.y, imageHi.y), imageHeight, RSub(imageLo.y, imageHi.y))),
       maxY |-> RRound(Scale(RSub(lo.y, imageHi.y), imageHeight, RSub(imageLo.y, imageHi.y)))]

geoBoundsToPixelBounds(targetBounds, imageBounds, imageWidth, imageHeight, zoom, retina) ==
  LET lo == px(targetBounds.minLng, targetBounds.minLat, zoom, retina)
      hi == px(targetBounds.maxLng, targetBounds.maxLat, zoom, retina)
      imageLo == px(imageBounds.minLng, imageBounds.minLat, zoom, retina)
      imageHi == px(imageBounds.maxLng, imageBounds.maxLat, zoom, retina)
      minX == lo.x
      maxY == lo.y
      maxX == hi.x
      minY == hi.y
      imageMinX == imageLo.x
      imageMaxY == imageLo.y
      imageMaxX == imageHi.x
      imageMinY == imageHi.y
  IN  [minX |-> RFloor(Scale(RSub(minX, imageMinX), imageWidth, RSub(imageMaxX, imageMinX))),
       maxX |-> RCeil(Scale(RSub(maxX, imageMinX), imageWidth, RSub(imageMaxX, imageMinX))),
       minY |-> RFloor(Scale(RSub(minY, imageMinY), imageHeight, RSub(imageMaxY, imageMinY))),
       maxY |-> RCeil(Scale(RSub(maxY, imageMinY), imageHeight, RSub(imageMaxY, imageMinY)))]

\* latLngToPixel with both coordinates rounded to whole pixels
latLngToPixelRounded(latLng, imageBounds, imageWidth, imageHeight, zoom, retina) ==
  LET target == px(latLng.lng, latLng.lat, zoom, retina)
      imageLo == px(imageBounds.minLng, imageBounds.minLat, zoom, retina)
      imageHi == px(imageBounds.maxLng, imageBounds.maxLat, zoom, retina)
      x == Scale(RSub(target.x, imageLo.x), imageWidth, RSub(imageHi.x, imageLo.x))
      y == Scale(RSub(target.y, imageHi.y), imageHeight, RSub(imageLo.y, imageHi.y))
  IN  [x |-> IF IsFinite(x) THEN R(RRound(x)) ELSE x,
       y |-> IF IsFinite(y) THEN R(RRound(y)) ELSE y]

latLngToPixel(latLng, imageBounds, imageWidth, imageHeight, zoom, retina) ==
  LET target == px(latLng.lng, latLng.lat, zoom, retina)
      imageLo == px(imageBounds.minLng, imageBounds.minLat, zoom, retina)
      imageHi == px(imageBounds.maxLng, imageBounds.maxLat, zoom, retina)
      targetX == target.x
      targetY == target.y
      imageMinX == imageLo.x
      imageMaxY == imageLo.y
      imageMaxX == imageHi.x
      imageMinY == imageHi.y
  IN  [x |-> Scale(RSub(targetX, imageMinX), imageWidth, RSub(imageMaxX, imageMinX)),
       y |-> Scale(RSub(targetY, imageMinY), imageHeight, RSub(imageMaxY, imageMinY))]

\* the error StitchingService.validatePixelBounds throws, or NoError
validatePixelBounds(pixelBounds, imageWidth, imageHeight) ==
  IF pixelBounds.minX < 0 \/ pixelBounds.maxX > imageWidth THEN "Invalid X bounds for image width"
  ELSE IF pixelBounds.minY < 0 \/ pixelBounds.maxY > imageHeight THEN "Invalid Y bounds for image height"
  ELSE IF pixelBounds.minX >= pixelBounds.maxX THEN "Invalid X bounds: min must be less than max"
  ELSE IF pixelBounds.minY >= pixelBounds.maxY THEN "Invalid Y bounds: min must be less than max"
  ELSE NoError

----------------------------------------------------------------------------
(* TileService.calculateTiles *)

\* Buffer.alloc(0)
EmptyBuffer == <<>>

\* the inner loop with y < bottomRight.y in place of y <= bottomRight.y
RECURSIVE ColumnExclusive(_, _, _, _)
ColumnExclusive(x, y, yMax, zoom) ==
  IF y >= yMax THEN <<>>
  ELSE <<[coord |-> [x |-> x, y |-> y, z |-> zoom], buffer |-> EmptyBuffer,
          bounds |-> tileToBounds(x, y, zoom)]>>
       \o ColumnExclusive(x, y + 1, yMax, zoom)

RECURSIVE Column(_, _, _, _)
Column(x, y, yMax, zoom) ==
  IF y > yMax THEN <<>>
  ELSE <<[coord |-> [x |-> x, y |-> y, z |-> zoom], buffer |-> EmptyBuffer,
          bounds |-> tileToBounds(x, y, zoom)]>>
       \o Column(x, y + 1, yMax, zoom)

RECURSIVE Columns(_, _, _, _, _)
Columns(x, xMax, yMin, yMax, zoom) ==
  IF x > xMax THEN <<>>
  ELSE Column(x, yMin, yMax, zoom) \o Columns(x + 1, xMax, yMin, yMax, zoom)

Nil == <<>>

\* zoom is a JavaScript number: with NaN both corner tiles are NaN, no loop runs, and
\* tileBounds is NaN on every edge (Nil)
calculateTiles(bounds, zoom) ==
  IF zoom.nan
  THEN [tiles |-> <<>>, targetBounds |-> bounds, tileBounds |-> Nil, zoom |-> zoom]
  ELSE
  LET topLeft == latLngToTile([lat |-> bounds.maxLat, lng |-> bounds.minLng], zoom.n)
      bottomRight == latLngToTile([lat |-> bounds.minLat, lng |-> bounds.maxLng], zoom.n)
      topLeftTileBounds == tileToBounds(topLeft.x, topLeft.y, zoom.n)
      bottomRightTileBounds == tileToBounds(bottomRight.x, bottomRight.y, zoom.n)
  IN  [tiles |-> Columns(topLeft.x, bottomRight.x, topLeft.y, bottomRight.y, zoom.n),
       targetBounds |-> bounds,
       tileBounds |-> [minLat |-> bottomRightTileBounds.minLat,
                       maxLat |-> topLeftTileBounds.maxLat,
                       minLng |-> topLeftTileBounds.minLng,
                       maxLng |-> bottomRightTileBounds.maxLng],
       zoom |-> zoom]

----------------------------------------------------------------------------
(* StitchingService.stitchAndCrop, up to validatePixelBounds *)

SeqMin(S) == CHOOSE m \in S : \A v \in S : m <= v
SeqMax(S) == CHOOSE m \in S : \A v \in S : m >= v

\* one call on a canvas: the image drawn, if any, and where
Call(op, image, x, y, width, height) ==
  [op |-> op, image |-> image, x |-> x, y |-> y, width |-> width, height |-> height]

FullCanvas == [canvas |-> "full"]
CroppedCanvas == [canvas |-> "cropped"]

\* the loop over tileGrid.tiles: a tile with an empty buffer is drawn as a placeholder
DrawTiles(tiles, minX, minY, tileSize) ==
  [i \in 1..Len(tiles) |->
     Call(IF tiles[i].buffer # EmptyBuffer THEN "drawImage" ELSE "drawTilePlaceholder",
          tiles[i].buffer,
          R((tiles[i].coord.x - minX) * tileSize), R((tiles[i].coord.y - minY) * tileSize),
          R(tileSize), R(tileSize))]

\* [err, pixelBounds, fullWidth, fullHeight, canvas] for a grid with at least one tile
stitchAndCrop(tileGrid, zoom, retina) ==
  LET xs == {tileGrid.tiles[i].coord.x : i \in 1..Len(tileGrid.tiles)}
      ys == {tileGrid.tiles[i].coord.y : i \in 1..Len(tileGrid.tiles)}
      cols == SeqMax(xs) - SeqMin(xs) + 1
      rows == SeqMax(ys) - SeqMin(ys) + 1
      tileSize == getTileSize(retina)
      fullWidth == cols * tileSize
      fullHeight == rows * tileSize
      pixelBounds == geoBoundsToPixelBounds(tileGrid.targetBounds, tileGrid.tileBounds,
                                            fullWidth, fullHeight, zoom.n, FALSE)
  IN  [err |-> validatePixelBounds(pixelBounds, fullWidth, fullHeight),
       pixelBounds |-> pixelBounds, fullWidth |-> fullWidth, fullHeight |-> fullHeight,
       canvas |-> <<Call("createCanvas", Nil, R(0), R(0), R(fullWidth), R(fullHeight))>>
                  \o DrawTiles(tileGrid.tiles, SeqMin(xs), SeqMin(ys), tileSize)
                  \o <<Call("createCanvas", Nil, R(0), R(0),
                            R(pixelBounds.maxX - pixelBounds.minX),
                            R(pixelBounds.maxY - pixelBounds.minY)),
                       Call("drawImage", FullCanvas, R(pixelBounds.minX), R(pixelBounds.minY),
                            R(pixelBounds.maxX - pixelBounds.minX),
                            R(pixelBounds.maxY - pixelBounds.minY))>>]

----------------------------------------------------------------------------
(* PreprocessingService *)

\* process without the two checks of the polyline
processUnchecked(config) ==
  IF config.expansionRegion # Undefined
     /\ validateExpansionRegion(config.expansionRegion) # NoError
  THEN [err |-> validateExpansionRegion(config.expansionRegion)]
  ELSE [err |-> NoError, gpsPoints |-> decode(config.polyline), config |-> config]

\* [err, gpsPoints, config]
process(config) ==
  IF ~validate(config.polyline) THEN [err |-> "Invalid polyline format"]
  ELSE LET gpsPoints == decode(config.polyline)
       IN  IF Len(gpsPoints) = 0 THEN [err |-> "No GPS points found in polyline"]
           ELSE IF config.expansionRegion # Undefined
                   /\ validateExpansionRegion(config.expansionRegion) # NoError
                THEN [err |-> validateExpansionRegion(config.expansionRegion)]
           ELSE [err |-> NoError, gpsPoints |-> gpsPoints, config |-> config]

\* the error PreprocessingService.validateConfig throws, or NoError; render does not call it
validateConfig(config) ==
  IF config.trackRegion.width <= 0 \/ config.trackRegion.height <= 0
  THEN "Track region dimensions must be positive"
  ELSE NoError

----------------------------------------------------------------------------
(* TrajMap.render as a state machine *)

VARIABLES
  config,      \* the TrajmapConfig handed to render
  pc,          \* where render stands: idle, fetching, stitching, projecting, formatting, done, failed
  gpsPoints,   \* decoded trajectory
  boundary,    \* result of BoundaryService.calculateBounds, Nil before
  zoom,        \* result of calculateOptimalZoom, Nil before
  tileGrid,    \* result of calculateTiles, Nil before
  fetch,       \* one entry per issued tile request: "pending", "ok" or "failed"
  rejected,    \* index of the first tile request that failed, 0 if none
  stitching,   \* result of stitchAndCrop, Nil before
  projection,  \* pixel points drawn by projectTrajectory, Nil before
  result,      \* the RenderResult returned to the caller, Nil if none
  failedAt,    \* the stage that threw, "none" if none
  error,       \* the error thrown to the caller: message prefixes, outermost first
  random,      \* the source of the values Math.random returns during the render
  urls,        \* the URL getTileUrl built for each tile request
  fetchedTiles,     \* the values the tile requests resolved with, Nil where none yet
  fetchedTileGrid,  \* the grid fetchTileGrid returned, Nil before
  canvas       \* the drawing calls made on the canvases so far, in order

vars == <<config, pc, gpsPoints, boundary, zoom, tileGrid, fetch, rejected,
          stitching, projection, result, failedAt, error,
          random, urls, fetchedTiles, fetchedTileGrid, canvas>>

\* what only the tile requests and the drawing steps write
drawing == <<urls, fetchedTiles, fetchedTileGrid, canvas>>

LL(lat, lng) == [lat |-> lat, lng |-> lng]
ER(up, down, left, right) ==
  [upPercent |-> up, downPercent |-> down, leftPercent |-> left, rightPercent |-> right]

\* trajectories given to render: none, a single point on a tile corner, a single point
\* inside a pixel, a meridian segment, the same with its first point twice, a
\* high-latitude segment
Trajectories ==
  { <<>>,
    <<LL(R(0), R(0))>>,
    <<LL(Rat(1, 32), Rat(9, 32))>>,
    <<LL(R(10), R(10)), LL(R(30), R(10))>>,
    <<LL(R(10), R(10)), LL(R(10), R(10)), LL(R(30), R(10))>>,
    <<LL(R(70), R(0)), LL(R(80), R(10))>> }

\* narrow track regions keep the tile grids small; the second has non-positive dimensions
TrackRegions == { [width |-> 100, height |-> 1600], [width |-> -100, height |-> -1600] }

ExpansionRegions ==
  { Undefined,
    ER(Undefined, Rat(1, 4), Undefined, Undefined),
    ER(R(1), Undefined, Undefined, Undefined),
    ER(Rat(1, 5), Rat(1, 5), Rat(1, 10), Rat(1, 10)),
    ER(Undefined, Undefined, Rat(1, 10), Rat(1, 10)),
    ER(Rat(3, 2), Undefined, Undefined, Undefined),
    ER(Undefined, Undefined, Rat(-1, 10), Undefined) }

Configs ==
  { [polyline |-> encode(t), trackRegion |-> tr, expansionRegion |-> e, retina |-> r] :
      t \in Trajectories, tr \in TrackRegions, e \in ExpansionRegions, r \in BOOLEAN }

\* const subdomains = ['a', 'b', 'c', 'd']
Subdomains == <<"a", "b", "c", "d">>

\* sources of Math.random: the k-th call, scaled to the subdomains and floored, gives
\* (seed + step * (k - 1)) % 4
RandomSources == { [seed |-> 0, step |-> 0], [seed |-> 1, step |-> 1] }

NoRandom == [seed |-> 0, step |-> 0]

\* Math.floor(Math.random() * subdomains.length) at the k-th call
RandomIndex(source, k) == (source.seed + source.step * (k - 1)) % Len(Subdomains)

\* getTileUrl with the random value also added to the column of the tile
getTileUrlRandomPath(coord, retina, index) ==
  [subdomain |-> Subdomains[index + 1], z |-> coord.z, x |-> coord.x + index, y |-> coord.y,
   retinaParam |-> IF retina THEN "@2x" ELSE ""]

\* TileService.getTileUrl with the value drawn from Math.random: the parts of the URL
getTileUrl(coord, retina, index) ==
  [subdomain |-> Subdomains[index + 1], z |-> coord.z, x |-> coord.x, y |-> coord.y,
   retinaParam |-> IF retina THEN "@2x" ELSE ""]

\* the tile server: every subdomain serves the same image for z/x/y and resolution
TileSource(url) ==
  [z |-> url.z, x |-> url.x, y |-> url.y,
   size |-> IF url.retinaParam = "@2x" THEN RetinaTileSize ELSE TileSize]

\* TileService.fetchTile once the request for url is answered
fetchTile(coord, retina, url) ==
  [coord |-> coord, buffer |-> TileSource(url), bounds |-> tileToBounds(coord.x, coord.y, coord.z)]

\* values collected in the order in which the promises resolve
ResolveInOrderOfCompletion(values, i, value) ==
  LET free == CHOOSE j \in 1..Len(values) :
                values[j] = Nil /\ \A k \in 1..(j - 1) : values[k] # Nil
  IN  [values EXCEPT ![free] = value]

\* Promise.all keeps the value of the i-th promise at index i
Resolve(values, i, value) == [values EXCEPT ![i] = value]

Init ==
  /\ config \in Configs
  /\ random \in RandomSources
  /\ urls = <<>>
  /\ fetchedTiles = <<>>
  /\ fetchedTileGrid = Nil
  /\ canvas = <<>>
  /\ pc = "idle"
  /\ gpsPoints = <<>>
  /\ boundary = Nil
  /\ zoom = Nil
  /\ tileGrid = Nil
  /\ fetch = <<>>
  /\ rejected = 0
  /\ stitching = Nil
  /\ projection = Nil
  /\ result = Nil
  /\ failedAt = "none"
  /\ error = <<>>

\* a catch block that rethrows the error as it is
CatchRethrow(cause) == cause

\* catch (error) { throw new Error(`TrajMap rendering failed: ${error}`) }
Catch(cause) == <<"TrajMap rendering failed">> \o cause

Fail(stage, cause) ==
  /\ pc' = "failed"
  /\ failedAt' = stage
  /\ error' = Catch(cause)

\* fetchTileGrid: one request per tile of the grid, all issued before the first await
fetchTileGrid(grid) == [i \in 1..Len(grid.tiles) |-> "pending"]

\* Steps 1-4 up to the await of the tile requests
RenderStart ==
  /\ pc = "idle"
  /\ \E pre \in {process(config)} :
       IF pre.err # NoError
       THEN /\ Fail("preprocess", <<pre.err>>)
            /\ UNCHANGED <<gpsPoints, boundary, zoom, tileGrid, fetch, urls, fetchedTiles>>
       ELSE \E b \in {BoundaryService_calculateBounds(pre.gpsPoints, pre.config.trackRegion,
                                                        pre.config.expansionRegion)} :
              IF b.err # NoError
              THEN /\ Fail("bounds", <<b.err>>)
                   /\ gpsPoints' = pre.gpsPoints
                   /\ UNCHANGED <<boundary, zoom, tileGrid, fetch, urls, fetchedTiles>>
              ELSE \E z \in {calculateOptimalZoom(b.bounds, DefaultViewportWidth,
                                                    DefaultViewportHeight)} :
                   \E grid \in {calculateTiles(b.bounds, z)} :
                     /\ gpsPoints' = pre.gpsPoints
                     /\ boundary' = b
                     /\ zoom' = z
                     /\ tileGrid' = grid
                     /\ fetch' = fetchTileGrid(grid)
                     /\ urls' = [i \in 1..Len(grid.tiles) |->
                                   getTileUrl(grid.tiles[i].coord, config.retina,
                                              RandomIndex(random, i))]
                     /\ fetchedTiles' = [i \in 1..Len(grid.tiles) |-> Nil]
                     /\ pc' = "fetching"
                     /\ UNCHANGED <<failedAt, error>>
  /\ UNCHANGED <<config, rejected, stitching, projection, result,
                 random, fetchedTileGrid, canvas>>

\* fetchTile: the request for tile i is answered
FetchTileOk(i) ==
  /\ i \in 1..Len(fetch)
  /\ fetch[i] = "pending"
  /\ fetch' = [fetch EXCEPT ![i] = "ok"]
  /\ fetchedTiles' = Resolve(fetchedTiles, i,
                             fetchTile(tileGrid.tiles[i].coord, config.retina, urls[i]))
  /\ UNCHANGED <<config, pc, gpsPoints, boundary, zoom, tileGrid, rejected,
                 stitching, projection, result, failedAt, error,
                 random, urls, fetchedTileGrid, canvas>>

\* fetchTile: the request for tile i fails and fetchTile throws
FetchTileFail(i) ==
  /\ i \in 1..Len(fetch)
  /\ fetch[i] = "pending"
  /\ fetch' = [fetch EXCEPT ![i] = "failed"]
  /\ rejected' = IF rejected = 0 THEN i ELSE rejected
  /\ UNCHANGED <<config, pc, gpsPoints, boundary, zoom, tileGrid,
                 stitching, projection, result, failedAt, error, random, drawing>>

\* a join that waits for every request to be answered and does not reject
FetchJoinWithoutReject ==
  /\ pc = "fetching"
  /\ \A i \in 1..Len(fetch) : fetch[i] = "ok"
  /\ fetchedTileGrid' = [tileGrid EXCEPT !.tiles = fetchedTiles]
  /\ pc' = "stitching"
  /\ UNCHANGED <<config, gpsPoints, boundary, zoom, tileGrid, fetch, rejected,
                 stitching, projection, result, failedAt, error,
                 random, urls, fetchedTiles, canvas>>

\* a join that resolves as soon as one request is answered
FetchJoinFirst ==
  /\ pc = "fetching"
  /\ \/ /\ rejected # 0
        /\ Fail("fetch", <<"Failed to fetch tile grid", "Failed to fetch tile">>)
        /\ UNCHANGED fetchedTileGrid
     \/ /\ rejected = 0
        /\ \E i \in 1..Len(fetch) : fetch[i] = "ok"
        /\ fetchedTileGrid' = [tileGrid EXCEPT !.tiles = fetchedTiles]
        /\ pc' = "stitching"
        /\ UNCHANGED <<failedAt, error>>
  /\ UNCHANGED <<config, gpsPoints, boundary, zoom, tileGrid, fetch, rejected,
                 stitching, projection, result, random, urls, fetchedTiles, canvas>>

\* await Promise.all(fetchPromises): resolves when every request is answered, rejects
\* with the first failure; fetchTileGrid rethrows it
FetchJoin ==
  /\ pc = "fetching"
  /\ \/ /\ rejected # 0
        /\ Fail("fetch", <<"Failed to fetch tile grid", "Failed to fetch tile">>)
        /\ UNCHANGED fetchedTileGrid
     \/ /\ rejected = 0
        /\ \A i \in 1..Len(fetch) : fetch[i] = "ok"
        /\ fetchedTileGrid' = [tileGrid EXCEPT !.tiles = fetchedTiles]
        /\ pc' = "stitching"
        /\ UNCHANGED <<failedAt, error>>
  /\ UNCHANGED <<config, gpsPoints, boundary, zoom, tileGrid, fetch, rejected,
                 stitching, projection, result, random, urls, fetchedTiles, canvas>>

NaNNumber == <<0, 0>>

\* Step 5, stitchAndCrop on a grid with tiles: a tile whose buffer is empty or does not
\* load is drawn as a placeholder, so only validatePixelBounds can throw
Stitch ==
  /\ pc = "stitching"
  /\ Len(fetchedTileGrid.tiles) > 0
  /\ \E st \in {stitchAndCrop(fetchedTileGrid, zoom, FALSE)} :
       IF st.err # NoError
       THEN /\ Fail("stitch", <<st.err>>)
            /\ UNCHANGED <<stitching, canvas>>
       ELSE /\ stitching' = [pixelBounds |-> st.pixelBounds,
                             bounds |-> fetchedTileGrid.targetBounds,
                             imageWidth |-> R(st.pixelBounds.maxX - st.pixelBounds.minX),
                             imageHeight |-> R(st.pixelBounds.maxY - st.pixelBounds.minY)]
            /\ canvas' = st.canvas
            /\ pc' = "projecting"
            /\ UNCHANGED <<failedAt, error>>
  /\ UNCHANGED <<config, gpsPoints, boundary, zoom, tileGrid, fetch, rejected, projection, result,
                 random, urls, fetchedTiles, fetchedTileGrid>>

\* Step 5 on the empty grid of a NaN zoom: the canvas is asked for -Infinity x -Infinity
\* and NaN x NaN pixels, validatePixelBounds lets NaN pass; the canvas library may throw
\* or hand back an image
StitchNoTiles ==
  /\ pc = "stitching"
  /\ Len(fetchedTileGrid.tiles) = 0
  /\ \/ /\ Fail("stitch", <<"canvas">>)
        /\ UNCHANGED stitching
     \/ /\ stitching' = [pixelBounds |-> Nil, bounds |-> fetchedTileGrid.targetBounds,
                         imageWidth |-> NaNNumber, imageHeight |-> NaNNumber]
        /\ pc' = "projecting"
        /\ UNCHANGED <<failedAt, error>>
  /\ UNCHANGED <<config, gpsPoints, boundary, zoom, tileGrid, fetch, rejected, projection, result,
                 random, drawing>>

\* gpsPoints.map(point => MercatorUtil.latLngToPixel(point, bounds, width, height, zoom, retina));
\* a NaN width, height or zoom makes every coordinate NaN
PixelPoints(points, bounds, width, height, z, retina) ==
  [i \in 1..Len(points) |->
     IF z.nan \/ ~IsFinite(width) \/ ~IsFinite(height)
     THEN [x |-> NaNNumber, y |-> NaNNumber]
     ELSE latLngToPixel(points[i], bounds, width[1], height[1], z.n, retina)]

\* the lineTo calls with a point that repeats the one before it left out
RECURSIVE LinesFromDistinct(_, _)
LinesFromDistinct(pixelPoints, i) ==
  IF i > Len(pixelPoints) THEN <<>>
  ELSE (IF pixelPoints[i] = pixelPoints[i - 1] THEN <<>>
        ELSE <<Call("lineTo", Nil, pixelPoints[i].x, pixelPoints[i].y, R(0), R(0))>>)
       \o LinesFromDistinct(pixelPoints, i + 1)

\* ctx.lineTo for the points from the i-th on
RECURSIVE LinesFrom(_, _)
LinesFrom(pixelPoints, i) ==
  IF i > Len(pixelPoints) THEN <<>>
  ELSE <<Call("lineTo", Nil, pixelPoints[i].x, pixelPoints[i].y, R(0), R(0))>>
       \o LinesFrom(pixelPoints, i + 1)

\* projectTrajectory on its canvas: the map image, then the path if there are two points
DrawTrajectory(pixelPoints, imageWidth, imageHeight) ==
  <<Call("createCanvas", Nil, R(0), R(0), imageWidth, imageHeight),
    Call("drawImage", CroppedCanvas, R(0), R(0), imageWidth, imageHeight)>>
  \o (IF Len(pixelPoints) >= 2
      THEN <<Call("moveTo", Nil, pixelPoints[1].x, pixelPoints[1].y, R(0), R(0))>>
           \o LinesFrom(pixelPoints, 2)
      ELSE <<>>)

\* Step 6, projectTrajectory: the path is drawn through the projected points
Project ==
  /\ pc = "projecting"
  /\ IF Len(gpsPoints) = 0
     THEN /\ Fail("project", <<"No GPS points to project">>)
          /\ UNCHANGED <<projection, canvas>>
     ELSE \E pixelPoints \in {PixelPoints(gpsPoints, stitching.bounds, stitching.imageWidth,
                                          stitching.imageHeight, zoom, FALSE)} :
          /\ projection' = pixelPoints
          /\ canvas' = canvas \o DrawTrajectory(pixelPoints, stitching.imageWidth,
                                                 stitching.imageHeight)
          /\ pc' = "formatting"
          /\ UNCHANGED <<failedAt, error>>
  /\ UNCHANGED <<config, gpsPoints, boundary, zoom, tileGrid, fetch, rejected, stitching, result,
                 random, urls, fetchedTiles, fetchedTileGrid>>

\* (expansion.xPercent || 0) * size
Share(pct, size) == IF pct = Undefined THEN R(0) ELSE RMul(pct, R(size))

targetWidth(c) ==
  IF c.expansionRegion = Undefined THEN c.trackRegion.width
  ELSE RRound(RAdd(RAdd(R(c.trackRegion.width),
                        Share(c.expansionRegion.leftPercent, c.trackRegion.width)),
                   Share(c.expansionRegion.rightPercent, c.trackRegion.width)))

targetHeight(c) ==
  IF c.expansionRegion = Undefined THEN c.trackRegion.height
  ELSE RRound(RAdd(RAdd(R(c.trackRegion.height),
                        Share(c.expansionRegion.upPercent, c.trackRegion.height)),
                   Share(c.expansionRegion.downPercent, c.trackRegion.height)))

\* RenderService.formatResult: the image as projected, the points rescaled to the target size
formatResult(image, polylinePoints, bounds, imageWidth, imageHeight, z, retina) ==
  [data |-> image,
   points |-> PixelPoints(polylinePoints, bounds, R(imageWidth), R(imageHeight), z, retina)]

\* Step 7
Format ==
  /\ pc = "formatting"
  /\ result' = formatResult([width |-> stitching.imageWidth, height |-> stitching.imageHeight,
                             canvas |-> canvas],
                            gpsPoints, stitching.bounds, targetWidth(config),
                            targetHeight(config), zoom, config.retina)
  /\ pc' = "done"
  /\ UNCHANGED <<config, gpsPoints, boundary, zoom, tileGrid, fetch, rejected,
                 stitching, projection, failedAt, error, random, drawing>>

Next ==
  \/ RenderStart
  \/ \E i \in 1..Len(fetch) : FetchTileOk(i)
  \/ \E i \in 1..Len(fetch) : FetchTileFail(i)
  \/ FetchJoin
  \/ Stitch
  \/ StitchNoTiles
  \/ Project
  \/ Format

Spec == Init /\ [][Next]_vars

----------------------------------------------------------------------------
(* The zoom, tile-grid and crop functions on their own, applied to bounds and zoom     *)
(* levels drawn from bounded sets.  config holds the arguments.                         *)

MaxCoarseZoom == 4

CoarseLats == {R(-60), R(-20), R(10), R(45), R(70)}
CoarseLngs == {R(-100), R(-30), R(0), R(50), R(120)}
PolarLats == {Rat(-179, 2), Rat(179, 2)}
FineLats == {R(0), Rat(1, 32)}
FineLngs == {R(0), Rat(1, 32)}

BoundsOver(lats, lngs) ==
  { [minLat |-> a, maxLat |-> b, minLng |-> c, maxLng |-> d] :
      a \in lats, b \in lats, c \in lngs, d \in lngs }

\* bounds with min <= max on both axes; equal edges give the zero-area cases
Ordered(S) == { b \in S : RLe(b.minLat, b.maxLat) /\ RLe(b.minLng, b.maxLng) }

Viewports ==
  { [width |-> DefaultViewportWidth, height |-> DefaultViewportHeight],
    [width |-> 256, height |-> 256], [width |-> 1, height |-> 1],
    [width |-> 100000, height |-> 2] }

\* wide bounds at the low zoom levels, bounds that reach towards both poles, bounds of
\* a fraction of a degree at every level
GridInputs ==
  { [bounds |-> b, zoom |-> z, viewport |-> v] :
      b \in Ordered(BoundsOver(CoarseLats, CoarseLngs)), z \in MinZoom..MaxCoarseZoom,
      v \in Viewports }
  \cup
  { [bounds |-> b, zoom |-> z, viewport |-> v] :
      b \in Ordered(BoundsOver(PolarLats, CoarseLngs)), z \in MinZoom..MaxCoarseZoom,
      v \in {[width |-> DefaultViewportWidth, height |-> DefaultViewportHeight]} }
  \cup
  { [bounds |-> b, zoom |-> z, viewport |-> v] :
      b \in Ordered(BoundsOver(FineLats, FineLngs)), z \in MinZoom..MaxZoom,
      v \in {[width |-> DefaultViewportWidth, height |-> DefaultViewportHeight]} }

GridInit ==
  /\ config \in GridInputs
  /\ random = NoRandom
  /\ urls = <<>>
  /\ fetchedTiles = <<>>
  /\ fetchedTileGrid = Nil
  /\ canvas = <<>>
  /\ pc = "grid"
  /\ gpsPoints = <<>>
  /\ boundary = Nil
  /\ zoom = Nil
  /\ tileGrid = Nil
  /\ fetch = <<>>
  /\ rejected = 0
  /\ stitching = Nil
  /\ projection = Nil
  /\ result = Nil
  /\ failedAt = "none"
  /\ error = <<>>

GridZoom ==
  /\ pc = "grid"
  /\ zoom' = calculateOptimalZoom(config.bounds, config.viewport.width, config.viewport.height)
  /\ pc' = "zoomed"
  /\ UNCHANGED <<config, gpsPoints, boundary, tileGrid, fetch, rejected,
                 stitching, projection, result, failedAt, error, random, drawing>>

GridTiles ==
  /\ pc = "zoomed"
  /\ tileGrid' = calculateTiles(config.bounds, Num(config.zoom))
  /\ pc' = "tiled"
  /\ UNCHANGED <<config, gpsPoints, boundary, zoom, fetch, rejected,
                 stitching, projection, result, failedAt, error, random, drawing>>

GridCrop ==
  /\ pc = "tiled"
  /\ stitching' = stitchAndCrop(tileGrid, Num(config.zoom), FALSE)
  /\ pc' = "cropped"
  /\ UNCHANGED <<config, gpsPoints, boundary, zoom, tileGrid, fetch, rejected,
                 projection, result, failedAt, error, random, drawing>>

GridNext == GridZoom \/ GridTiles \/ GridCrop

SpecGrid == GridInit /\ [][GridNext]_vars
----------------------------------------------------------------------------
(* Properties *)

RenderFailedMessage == "TrajMap rendering failed"
\* the pixel extent of a span of degrees (longitude, or latitude on the Mercator axis)
\* at zoom z, where the world is 256 * 2^z pixels wide and high
PixelExtent(span, z) == RMul(RDiv(span, R(360)), R(TileSize * Pow2(z)))
FitsViewport(b, z, viewport) ==
  /\ RLe(PixelExtent(RSub(b.maxLng, b.minLng), z), R(viewport.width))
  /\ RLe(PixelExtent(RAbs(RSub(MercY(b.maxLat), MercY(b.minLat))), z), R(viewport.height))
DefaultViewport == [width |-> DefaultViewportWidth, height |-> DefaultViewportHeight]
InRange(e) == \A f \in Directions : ~OutOfRange(e[f])
PositiveArea(b) == RLt(b.minLat, b.maxLat) /\ RLt(b.minLng, b.maxLng)
ZeroArea(b) == b.minLat = b.maxLat \/ b.minLng = b.maxLng
Contains(outer, inner) ==
  /\ RLe(outer.minLat, inner.minLat)
  /\ RLe(inner.maxLat, outer.maxLat)
  /\ RLe(outer.minLng, inner.minLng)
  /\ RLe(inner.maxLng, outer.maxLng)

\* C1: whichever tile requests fail, the render is not failed by them: a failed tile is
\* replaced by a placeholder and the render goes on to completion.
C1_FailedTilesDoNotFailRender == failedAt # "fetch"

C3_CropInsideCanvas ==
  (pc = "cropped" /\ PositiveArea(config.bounds)) =>
    /\ stitching.err = NoError
    /\ 0 <= stitching.pixelBounds.minX
    /\ stitching.pixelBounds.minX < stitching.pixelBounds.maxX
    /\ stitching.pixelBounds.maxX <= stitching.fullWidth
    /\ 0 <= stitching.pixelBounds.minY
    /\ stitching.pixelBounds.minY < stitching.pixelBounds.maxY
    /\ stitching.pixelBounds.maxY <= stitching.fullHeight

C3_Witness ==
  /\ pc = "cropped"
  /\ PositiveArea(config.bounds)
  /\ Len(tileGrid.tiles) > 1
  /\ stitching.pixelBounds.minX > 0
  /\ stitching.pixelBounds.maxY < stitching.fullHeight

\* C4: an ExpansionRegion with two or more directions set, each in [0,1], is accepted by
\* preprocessing and by applyExpansionRegion, and every set direction moves its edge of
\* bound2 by its share of the range.
C4_MultiDirectionAccepted ==
  (/\ pc # "idle"
   /\ Len(config.polyline) > 0
   /\ config.expansionRegion # Undefined
   /\ InRange(config.expansionRegion)
   /\ Cardinality(SetDirections(config.expansionRegion)) >= 2) =>
    /\ failedAt \notin {"preprocess", "bounds"}
    /\ boundary # Nil
    /\ boundary.bound3.minLng =
         RSub(boundary.bound2.minLng,
              Expand(RSub(boundary.bound2.maxLng, boundary.bound2.minLng),
                     config.expansionRegion.leftPercent))
    /\ boundary.bound3.maxLng =
         RAdd(boundary.bound2.maxLng,
              Expand(RSub(boundary.bound2.maxLng, boundary.bound2.minLng),
                     config.expansionRegion.rightPercent))

\* C5: when the polyline decodes to no point, render fails with the input error of
\* preprocessing, and no tile request is issued.
C5_EmptyPolylineRejected ==
  (pc # "idle" /\ Len(decode(config.polyline)) = 0) =>
    /\ pc = "failed"
    /\ failedAt = "preprocess"
    /\ error = <<RenderFailedMessage, "Invalid polyline format">>
    /\ fetch = <<>>
    /\ result = Nil

C5_Witness ==
  /\ pc = "failed"
  /\ Len(config.polyline) = 0
  /\ config.expansionRegion = Undefined

\* C6: when trackRegion.width <= 0 or trackRegion.height <= 0, render fails with an
\* input error before any tile request is issued.
C6_NonPositiveTrackRegionRejected ==
  (pc # "idle" /\ validateConfig(config) # NoError) =>
    /\ pc = "failed"
    /\ fetch = <<>>

\* C7: when a set expansion percentage is below 0 or above 1, render fails with the
\* input error of preprocessing, before bounds are computed and before any tile request.
C7_OutOfRangeExpansionRejected ==
  (/\ pc # "idle"
   /\ config.expansionRegion # Undefined
   /\ ~InRange(config.expansionRegion)) =>
    /\ pc = "failed"
    /\ failedAt = "preprocess"
    /\ Len(config.polyline) > 0 =>
         error = <<RenderFailedMessage, "ExpansionRegion field must be a number between 0 and 1">>
    /\ boundary = Nil
    /\ zoom = Nil
    /\ fetch = <<>>
    /\ result = Nil

C7_Witness ==
  /\ pc = "failed"
  /\ Len(config.polyline) > 0
  /\ config.expansionRegion # Undefined
  /\ config.expansionRegion.leftPercent # Undefined
  /\ RLt(config.expansionRegion.leftPercent, R(0))

\* C8: when the bounds have zero area, render aborts with a geometry error and goes on to
\* no zoom selection, no tile request and no crop.
C8_ZeroAreaBoundsAbort ==
  (boundary # Nil /\ ZeroArea(boundary.bounds)) =>
    /\ pc = "failed"
    /\ zoom = Nil
    /\ fetch = <<>>

\* C9: an error raised in any stage reaches the caller as one error whose outermost and
\* only wrapper is the 'rendering failed' message, with the cause inside it, and no
\* RenderResult is returned; without an error nothing is thrown.
C9_ErrorsWrappedOnce ==
  /\ pc = "failed" =>
       /\ failedAt # "none"
       /\ Len(error) >= 2
       /\ error[1] = RenderFailedMessage
       /\ \A i \in 2..Len(error) : error[i] # RenderFailedMessage
       /\ result = Nil
  /\ pc # "failed" => (failedAt = "none" /\ error = <<>>)
  /\ result # Nil => pc = "done"

C9_Witness ==
  /\ pc = "failed"
  /\ failedAt = "stitch"
  /\ \A i \in 1..Len(fetch) : fetch[i] = "ok"

\* C10: the zoom returned by calculateOptimalZoom and passed on to the tile grid,
\* stitching and projection is an integer in [1,18].
C10_ZoomInRange ==
  zoom # Nil => (~zoom.nan /\ zoom.n \in MinZoom..MaxZoom)

\* C11: with the reference viewport of 1024 x 768, the bounds fit the viewport at the zoom
\* calculateOptimalZoom returns (pixel width <= 1024 and Mercator pixel height <= 768),
\* and that zoom is the largest in [1,18] at which they fit.
C11_ZoomIsLargestFit ==
  (pc # "grid" /\ config.viewport = DefaultViewport) =>
    /\ ~zoom.nan
    /\ FitsViewport(config.bounds, zoom.n, DefaultViewport)
    /\ zoom.n = MaxZoom \/ ~FitsViewport(config.bounds, zoom.n + 1, DefaultViewport)

\* a trajectory with at least two distinct points
TwoDistinctPoints(points) ==
  \E i \in 1..Len(points) : \E j \in 1..Len(points) : points[i] # points[j]

\* a pixel point with finite coordinates inside the rectangle [0, width] x [0, height]
InsideImage(p, width, height) ==
  /\ IsFinite(p.x) /\ RLe(R(0), p.x) /\ RLe(p.x, R(width))
  /\ IsFinite(p.y) /\ RLe(R(0), p.y) /\ RLe(p.y, R(height))

Rescale(coordinate, final, cropped) ==
  IF ~IsFinite(coordinate) THEN coordinate
  ELSE IF ~IsFinite(cropped) \/ cropped[1] = 0 THEN NaNNumber
  ELSE RDiv(RMul(coordinate, R(final)), cropped)

\* C13: every pixel point of the RenderResult equals the point's projection in the cropped
\* raster frame (the points drawn by projectTrajectory onto croppedW x croppedH) scaled by
\* (finalW / croppedW, finalH / croppedH).
C13_FinalPointsAreScaledProjection ==
  pc = "done" =>
    /\ Len(result.points) = Len(projection)
    /\ \A i \in 1..Len(projection) :
         /\ result.points[i].x =
              Rescale(projection[i].x, targetWidth(config), stitching.imageWidth)
         /\ result.points[i].y =
              Rescale(projection[i].y, targetHeight(config), stitching.imageHeight)

C13_Witness ==
  /\ pc = "done"
  /\ config.retina
  /\ Len(projection) = 2
  /\ IsFinite(projection[2].x)
  /\ RLt(R(0), projection[2].x)
  /\ projection[2].x # result.points[2].x
  /\ projection[2].y # result.points[2].y

\* expansionRegion.xPercent || 0
OrZero(pct) == IF pct = Undefined THEN R(0) ELSE pct

\* RenderService.calculateOutputDimensions: trackRegion scaled by (1 + left + right) and
\* (1 + up + down), rounded; an omitted percentage or region counts as 0
calculateOutputDimensions(trackRegion, expansionRegion) ==
  IF expansionRegion = Undefined
  THEN [finalWidth |-> trackRegion.width, finalHeight |-> trackRegion.height]
  ELSE [finalWidth |->
          RRound(RMul(R(trackRegion.width),
                      RAdd(RAdd(R(1), OrZero(expansionRegion.leftPercent)),
                           OrZero(expansionRegion.rightPercent)))),
        finalHeight |->
          RRound(RMul(R(trackRegion.height),
                      RAdd(RAdd(R(1), OrZero(expansionRegion.upPercent)),
                           OrZero(expansionRegion.downPercent))))]

\* C14: the image of the RenderResult has width round(trackRegion.width * (1 + leftPct +
\* rightPct)) and height round(trackRegion.height * (1 + upPct + downPct)), an omitted
\* percentage or region counting as 0: the drawn raster is resampled to these dimensions.
\* Stated for the renders of a valid trackRegion that ran with a numeric zoom.
C14_ImageHasFinalDimensions ==
  (pc = "done" /\ validateConfig(config) = NoError /\ ~zoom.nan) =>
    /\ result.data.width =
         R(calculateOutputDimensions(config.trackRegion, config.expansionRegion).finalWidth)
    /\ result.data.height =
         R(calculateOutputDimensions(config.trackRegion, config.expansionRegion).finalHeight)

\* the stage that follows each stage of render
NextStage ==
  [idle |-> "fetching", fetching |-> "stitching", stitching |-> "projecting",
   projecting |-> "formatting", formatting |-> "done"]

\* one step of render moves to the next stage or fails, and each stage's output is
\* written in its own stage only
StageOrder ==
  /\ pc' # pc => /\ pc \in DOMAIN NextStage
                 /\ pc' \in {NextStage[pc], "failed"}
  /\ <<gpsPoints, boundary, zoom, tileGrid>>' # <<gpsPoints, boundary, zoom, tileGrid>> =>
       pc = "idle"
  /\ stitching' # stitching => (pc = "stitching" /\ pc' = "projecting")
  /\ projection' # projection => (pc = "projecting" /\ pc' = "formatting")
  /\ result' # result => (pc = "formatting" /\ pc' = "done")

\* each stage has consumed the output of the stage before it
StageInputs ==
  /\ boundary # Nil => boundary.bound0 = GeoUtil_calculateBounds(gpsPoints)
  /\ zoom # Nil => boundary # Nil
  /\ tileGrid # Nil =>
       /\ tileGrid.targetBounds = boundary.bounds
       /\ tileGrid.zoom = zoom
       /\ Len(fetch) = Len(tileGrid.tiles)
  /\ stitching # Nil => stitching.bounds = tileGrid.targetBounds
  /\ projection # Nil => (stitching # Nil /\ Len(projection) = Len(gpsPoints))
  /\ result # Nil => projection # Nil

\* nothing is composited before every tile request of the grid has settled
JoinBarrier ==
  (pc \in {"stitching", "projecting", "formatting", "done"} \/ stitching # Nil) =>
    \A i \in 1..Len(fetch) : fetch[i] # "pending"

\* C15: within one render the stages run in the order points, bounds, zoom, tile grid,
\* fetch, composite/crop, project/draw, format, each consuming the output of the stage
\* before it, and no tile is drawn onto the composite canvas before every tile fetch of
\* the grid has settled.
C15_StagesInOrderBehindJoin == [][StageOrder]_vars /\ [](StageInputs /\ JoinBarrier)

C15_Witness ==
  /\ pc = "projecting"
  /\ Len(fetch) >= 2
  /\ stitching # Nil

\* TileService.validateTileCoord
validateTileCoord(coord) ==
  LET maxTile == Pow2(coord.z) - 1
  IN  /\ coord.x >= 0 /\ coord.x <= maxTile
      /\ coord.y >= 0 /\ coord.y <= maxTile
      /\ coord.z >= 0 /\ coord.z <= MaxZoom

\* C16: every tile coordinate {x, y, z} that calculateTiles produces during a render of
\* valid WGS84 points satisfies 0 <= x < 2^z and 0 <= y < 2^z (validateTileCoord holds).
C16_TileCoordsInRange ==
  (tileGrid # Nil /\ validateConfig(config) = NoError) =>
    \A i \in 1..Len(tileGrid.tiles) : validateTileCoord(tileGrid.tiles[i].coord)

\* C17: for a non-empty list of valid WGS84 points and a valid trackRegion and
\* ExpansionRegion, the final bounds of BoundaryService.calculateBounds and each of
\* bound0..bound3 satisfy the GeoBounds invariant: minLat < maxLat, minLng < maxLng,
\* latitudes within [-90, 90] and longitudes within [-180, 180].
C17_BoundsKeepGeoBoundsInvariant ==
  (boundary # Nil /\ validateConfig(config) = NoError) =>
    /\ validateBounds(boundary.bounds) = NoError
    /\ validateBounds(boundary.bound0) = NoError
    /\ validateBounds(boundary.bound1) = NoError
    /\ validateBounds(boundary.bound2) = NoError
    /\ validateBounds(boundary.bound3) = NoError

\* the corner tiles calculateTiles starts from
TopLeft(g) == latLngToTile([lat |-> g.targetBounds.maxLat, lng |-> g.targetBounds.minLng], g.zoom.n)
BottomRight(g) == latLngToTile([lat |-> g.targetBounds.minLat, lng |-> g.targetBounds.maxLng], g.zoom.n)

\* the coordinates of the full rectangle between two corner tiles
TileRectangle(topLeft, bottomRight, z) ==
  { [x |-> x, y |-> y, z |-> z] : x \in topLeft.x..bottomRight.x, y \in topLeft.y..bottomRight.y }

\* C18: calculateTiles returns exactly the tiles (x, y, zoom) with topLeft.x <= x <=
\* bottomRight.x and topLeft.y <= y <= bottomRight.y, each exactly once: the grid is a full
\* rectangle of cols * rows tiles, with at least one tile whenever minLat <= maxLat and
\* minLng <= maxLng.
C18_GridIsFullRectangle ==
  pc \in {"tiled", "cropped"} =>
    LET tiles == tileGrid.tiles
        coords == {tiles[i].coord : i \in 1..Len(tiles)}
        cols == BottomRight(tileGrid).x - TopLeft(tileGrid).x + 1
        rows == BottomRight(tileGrid).y - TopLeft(tileGrid).y + 1
    IN  /\ coords = TileRectangle(TopLeft(tileGrid), BottomRight(tileGrid), config.zoom)
        /\ \A i \in 1..Len(tiles) : \A j \in 1..Len(tiles) :
             tiles[i].coord = tiles[j].coord => i = j
        /\ Len(tiles) = cols * rows
        /\ Len(tiles) >= 1

C18_Witness ==
  /\ pc = "tiled"
  /\ BottomRight(tileGrid).x - TopLeft(tileGrid).x >= 1
  /\ BottomRight(tileGrid).y - TopLeft(tileGrid).y >= 2
  /\ Len(tileGrid.tiles) >= 6

\* the four corner points of bounds
Corners(b) ==
  { [lat |-> lat, lng |-> lng] : lat \in {b.minLat, b.maxLat}, lng \in {b.minLng, b.maxLng} }

ContainsPoint(b, p) ==
  /\ RLe(b.minLat, p.lat) /\ RLe(p.lat, b.maxLat)
  /\ RLe(b.minLng, p.lng) /\ RLe(p.lng, b.maxLng)

\* the bounds of the tile that latLngToTile gives for a point
TileBoundsOf(p, z) == tileToBounds(latLngToTile(p, z).x, latLngToTile(p, z).y, z)

----------------------------------------------------------------------------
(* PolylineUtil.encode followed by PolylineUtil.decode on point lists *)

MaxPoints == 2

\* coordinates on and off the grid of 1e-5 degrees, of both signs, up to the valid extremes
CodecLats == {R(-90), Rat(-1, 3), R(0), Rat(1, 200000), Rat(77, 2)}
CodecLngs == {R(-180), Rat(-601, 5), Rat(1, 250000), Rat(17999999, 100000)}

CodecPoints == { LL(lat, lng) : lat \in CodecLats, lng \in CodecLngs }

PointLists == UNION { [1..n -> CodecPoints] : n \in 0..MaxPoints }

CodecInit ==
  /\ config \in { [points |-> points, polyline |-> <<>>] : points \in PointLists }
  /\ random = NoRandom
  /\ urls = <<>>
  /\ fetchedTiles = <<>>
  /\ fetchedTileGrid = Nil
  /\ canvas = <<>>
  /\ pc = "points"
  /\ gpsPoints = <<>>
  /\ boundary = Nil
  /\ zoom = Nil
  /\ tileGrid = Nil
  /\ fetch = <<>>
  /\ rejected = 0
  /\ stitching = Nil
  /\ projection = Nil
  /\ result = Nil
  /\ failedAt = "none"
  /\ error = <<>>

CodecEncode ==
  /\ pc = "points"
  /\ config' = [config EXCEPT !.polyline = encode(config.points)]
  /\ pc' = "encoded"
  /\ UNCHANGED <<gpsPoints, boundary, zoom, tileGrid, fetch, rejected,
                 stitching, projection, result, failedAt, error, random, drawing>>

CodecDecode ==
  /\ pc = "encoded"
  /\ gpsPoints' = decode(config.polyline)
  /\ pc' = "decoded"
  /\ UNCHANGED <<config, boundary, zoom, tileGrid, fetch, rejected,
                 stitching, projection, result, failedAt, error, random, drawing>>

CodecNext == CodecEncode \/ CodecDecode

SpecCodec == CodecInit /\ [][CodecNext]_vars

\* Math.round(coordinate * 1e5): the coordinate on the integer grid of 1e-5 degrees
ToGrid(coordinate) == RRound(RMul(coordinate, R(Precision)))

WithinPrecision(a, b) == RLe(RAbs(RSub(a, b)), Rat(1, Precision))

\* C20: decode(encode(points)) has the length and order of points, each coordinate is
\* within 1e-5 degrees of the original, and on the integer grid of 1e-5 degrees every
\* value comes back exactly.
C20_DecodeEncodeRoundTrip ==
  pc = "decoded" =>
    /\ Len(gpsPoints) = Len(config.points)
    /\ \A i \in 1..Len(config.points) :
         /\ WithinPrecision(gpsPoints[i].lat, config.points[i].lat)
         /\ WithinPrecision(gpsPoints[i].lng, config.points[i].lng)
         /\ gpsPoints[i].lat = Rat(ToGrid(config.points[i].lat), Precision)
         /\ gpsPoints[i].lng = Rat(ToGrid(config.points[i].lng), Precision)

C20_Witness ==
  /\ pc = "decoded"
  /\ Len(config.points) = 2
  /\ ToGrid(config.points[2].lat) < ToGrid(config.points[1].lat)
  /\ ToGrid(config.points[2].lng) > ToGrid(config.points[1].lng)
  /\ Len(config.polyline) > 8
  /\ gpsPoints[1] # config.points[1]
  /\ gpsPoints[2] = config.points[2]

----------------------------------------------------------------------------
(* The render as a function of its configuration and of the tile server alone *)

\* the image the tile server holds for a tile, whichever subdomain is asked
ServedTile(coord, retina) ==
  [z |-> coord.z, x |-> coord.x, y |-> coord.y, size |-> getTileSize(retina)]

\* the RenderResult of a render that completes, computed without the random source:
\* the stages of render applied one after the other to the configuration
RenderOutput(c) ==
  LET points == decode(c.polyline)
      bounds == BoundaryService_calculateBounds(points, c.trackRegion, c.expansionRegion).bounds
      z == calculateOptimalZoom(bounds, DefaultViewportWidth, DefaultViewportHeight)
      grid == calculateTiles(bounds, z)
      fetched == [grid EXCEPT !.tiles =
                    [i \in 1..Len(grid.tiles) |->
                       [grid.tiles[i] EXCEPT !.buffer = ServedTile(grid.tiles[i].coord, c.retina)]]]
      st == stitchAndCrop(fetched, z, FALSE)
      imageWidth == IF Len(grid.tiles) = 0 THEN NaNNumber
                    ELSE R(st.pixelBounds.maxX - st.pixelBounds.minX)
      imageHeight == IF Len(grid.tiles) = 0 THEN NaNNumber
                     ELSE R(st.pixelBounds.maxY - st.pixelBounds.minY)
      pixelPoints == PixelPoints(points, bounds, imageWidth, imageHeight, z, FALSE)
      drawn == (IF Len(grid.tiles) = 0 THEN <<>> ELSE st.canvas)
               \o DrawTrajectory(pixelPoints, imageWidth, imageHeight)
  IN  formatResult([width |-> imageWidth, height |-> imageHeight, canvas |-> drawn],
                   points, bounds, targetWidth(c), targetHeight(c), z, c.retina)

\* C21: a render that completes returns the image and the pixel points that its input and
\* the tile server determine, whatever subdomains were drawn; the random value shows in
\* the subdomain of each URL and nowhere else.
C21_OutputIndependentOfSubdomain ==
  /\ pc = "done" => result = RenderOutput(config)
  /\ \A i \in 1..Len(urls) :
       /\ [urls[i] EXCEPT !.subdomain = Subdomains[1]]
            = getTileUrl(tileGrid.tiles[i].coord, config.retina, 0)
       /\ fetchedTiles[i] # Nil =>
            fetchedTiles[i].buffer = ServedTile(tileGrid.tiles[i].coord, config.retina)

C21_Witness ==
  /\ pc = "done"
  /\ Len(urls) >= 3
  /\ urls[1].subdomain = "b"
  /\ urls[2].subdomain = "c"
  /\ urls[3].subdomain = "d"
  /\ Len(result.points) = 2
  /\ Len(result.data.canvas) > Len(urls) + 5

----------------------------------------------------------------------------
(* Steps 3 and 4 of BoundaryService.calculateBounds applied to bounds, track regions   *)
(* and expansion regions drawn from bounded sets.  config holds the arguments.          *)

\* bound1 between the tropics and up to latitude 70 with wide, square and moderately
\* tall track regions; a bound1 two thirds of the globe wide with a very tall one
BoundsInputs ==
  { [bounds |-> b, trackRegion |-> t, expansionRegion |-> e] :
      b \in Ordered(BoundsOver({R(-10), R(10), R(70)}, {R(-100), R(0), R(20)})),
      t \in { [width |-> 300, height |-> 300], [width |-> 1600, height |-> 100],
              [width |-> 100, height |-> 400] },
      e \in ExpansionRegions }
  \cup
  { [bounds |-> b, trackRegion |-> t, expansionRegion |-> e] :
      b \in Ordered(BoundsOver({R(-10), R(10)}, {R(-120), R(120)})),
      t \in { [width |-> 100, height |-> 1600] },
      e \in ExpansionRegions }

BoundsInit ==
  /\ config \in BoundsInputs
  /\ random = NoRandom
  /\ urls = <<>>
  /\ fetchedTiles = <<>>
  /\ fetchedTileGrid = Nil
  /\ canvas = <<>>
  /\ pc = "bound1"
  /\ gpsPoints = <<>>
  /\ boundary = Nil
  /\ zoom = Nil
  /\ tileGrid = Nil
  /\ fetch = <<>>
  /\ rejected = 0
  /\ stitching = Nil
  /\ projection = Nil
  /\ result = Nil
  /\ failedAt = "none"
  /\ error = <<>>

\* const bound2 = GeoUtil.adjustBoundsToAspectRatio(bound1, trackRegion)
AdjustBounds ==
  /\ pc = "bound1"
  /\ boundary' = [bound1 |-> config.bounds,
                  bound2 |-> adjustBoundsToAspectRatio(config.bounds, config.trackRegion)]
  /\ pc' = "bound2"
  /\ UNCHANGED <<config, gpsPoints, zoom, tileGrid, fetch, rejected,
                 stitching, projection, result, failedAt, error, random, drawing>>

\* const bound3 = GeoUtil.applyExpansionRegion(bound2, expansionRegion), which may throw
ExpandBounds ==
  /\ pc = "bound2"
  /\ \E applied \in {applyExpansionRegion(boundary.bound2, config.expansionRegion)} :
       IF applied.err # NoError
       THEN /\ pc' = "failed"
            /\ failedAt' = "bounds"
            /\ error' = <<applied.err>>
            /\ UNCHANGED boundary
       ELSE /\ boundary' = [bound1 |-> boundary.bound1, bound2 |-> boundary.bound2,
                            bound3 |-> applied.bounds, bounds |-> applied.bounds]
            /\ pc' = "bound3"
            /\ UNCHANGED <<failedAt, error>>
  /\ UNCHANGED <<config, gpsPoints, zoom, tileGrid, fetch, rejected,
                 stitching, projection, result, random, drawing>>

BoundsNext == AdjustBounds \/ ExpandBounds

SpecBounds == BoundsInit /\ [][BoundsNext]_vars

\* C22: for a bound1 of positive area and a track region of positive width and height,
\* the Mercator width of bound2 divided by its Mercator height differs from
\* trackRegion.width / trackRegion.height by less than 1e-6.
C22_AspectRatioMatches ==
  (pc = "bound2" /\ PositiveArea(config.bounds)
     /\ config.trackRegion.width > 0 /\ config.trackRegion.height > 0) =>
    LET minPoint == latLngToMeters([lat |-> boundary.bound2.minLat, lng |-> boundary.bound2.minLng])
        maxPoint == latLngToMeters([lat |-> boundary.bound2.maxLat, lng |-> boundary.bound2.maxLng])
        widthMeters == RSub(maxPoint.x, minPoint.x)
        heightMeters == RSub(maxPoint.y, minPoint.y)
    IN  /\ heightMeters[1] # 0
        /\ RLt(RAbs(RSub(RDiv(widthMeters, heightMeters),
                         Rat(config.trackRegion.width, config.trackRegion.height))),
               Rat(1, 1000000))

\* C23: adjustBoundsToAspectRatio only grows: one axis of bound2 has exactly bound1's
\* min and max, on the other the new interval is symmetric in Mercator meters about the
\* centre of bound1, and bound2 contains bound1.
C23_AdjustOnlyGrows ==
  (pc = "bound2" /\ PositiveArea(config.bounds)) =>
    LET bound1 == boundary.bound1
        bound2 == boundary.bound2
        centerPoint == latLngToMeters([lat |-> RDiv(RAdd(bound1.minLat, bound1.maxLat), R(2)),
                                       lng |-> RDiv(RAdd(bound1.minLng, bound1.maxLng), R(2))])
        minPoint == latLngToMeters([lat |-> bound2.minLat, lng |-> bound2.minLng])
        maxPoint == latLngToMeters([lat |-> bound2.maxLat, lng |-> bound2.maxLng])
    IN  /\ \/ /\ bound2.minLat = bound1.minLat /\ bound2.maxLat = bound1.maxLat
              /\ RSub(maxPoint.x, centerPoint.x) = RSub(centerPoint.x, minPoint.x)
           \/ /\ bound2.minLng = bound1.minLng /\ bound2.maxLng = bound1.maxLng
              /\ RSub(maxPoint.y, centerPoint.y) = RSub(centerPoint.y, minPoint.y)
        /\ Contains(bound2, bound1)

\* C24: in whatever order the tile requests complete, the grid fetchTileGrid returns has
\* the tiles of the input grid in the same order with the same coordinates, tile i holds
\* the buffer fetched for tile i, targetBounds, tileBounds and zoom are unchanged, and
\* the input grid still is what calculateTiles returned.
C24_FetchedGridKeepsOrder ==
  /\ fetchedTileGrid # Nil =>
       /\ Len(fetchedTileGrid.tiles) = Len(tileGrid.tiles)
       /\ \A i \in 1..Len(tileGrid.tiles) :
            /\ fetchedTileGrid.tiles[i].coord = tileGrid.tiles[i].coord
            /\ fetchedTileGrid.tiles[i].bounds = tileGrid.tiles[i].bounds
            /\ fetchedTileGrid.tiles[i].buffer = TileSource(urls[i])
            /\ [z |-> urls[i].z, x |-> urls[i].x, y |-> urls[i].y] = tileGrid.tiles[i].coord
       /\ fetchedTileGrid.targetBounds = tileGrid.targetBounds
       /\ fetchedTileGrid.tileBounds = tileGrid.tileBounds
       /\ fetchedTileGrid.zoom = tileGrid.zoom
  /\ tileGrid # Nil =>
       /\ tileGrid = calculateTiles(boundary.bounds, zoom)
       /\ \A i \in 1..Len(tileGrid.tiles) : tileGrid.tiles[i].buffer = EmptyBuffer

C24_Witness ==
  /\ pc = "stitching"
  /\ fetchedTileGrid # Nil
  /\ Len(fetchedTileGrid.tiles) >= 4
  /\ config.retina
  /\ fetchedTileGrid.tiles[4].buffer.size = RetinaTileSize
  /\ fetchedTileGrid.tiles[4].buffer # fetchedTileGrid.tiles[1].buffer

----------------------------------------------------------------------------
(* The render with its continuations scheduled: a continuation that can run does   *)
(* run.  Nothing is assumed about when, or whether, a tile request is answered.    *)
(* Math.random plays no part in the scheduling: one source.                        *)

LiveInit == Init /\ random = NoRandom

SpecLive ==
  /\ LiveInit
  /\ [][Next]_vars
  /\ WF_vars(FetchJoin)
  /\ WF_vars(Stitch)
  /\ WF_vars(StitchNoTiles)
  /\ WF_vars(Project)
  /\ WF_vars(Format)

\* every request of the render has been answered, with a tile or with an error
AllSettled == pc # "idle" /\ \A i \in 1..Len(fetch) : fetch[i] # "pending"

\* a step answers at most one request and leaves the others as they are
SettleOnlyOwn ==
  pc # "idle" =>
    /\ Len(fetch') = Len(fetch)
    /\ \A i \in 1..Len(fetch) :
         fetch'[i] # fetch[i] =>
           /\ fetch[i] = "pending"
           /\ \A j \in 1..Len(fetch) : j # i => fetch'[j] = fetch[j]

\* C25: once every tile request is answered the render completes (with an image or
\* with an error); a request is issued for every tile of the grid; a step answers
\* only its own request, and a request not yet answered can still be answered or
\* fail whatever became of the others and of the render
C25_JoinCompletesOnceSettled ==
  /\ AllSettled ~> (pc \in {"done", "failed"})
  /\ [](pc # "idle" /\ tileGrid # Nil => Len(fetch) = Len(tileGrid.tiles))
  /\ [][SettleOnlyOwn]_vars
  /\ [](\A i \in 1..Len(fetch) :
          fetch[i] = "pending" => ENABLED FetchTileFail(i) /\ ENABLED FetchTileOk(i))

C25_Witness ==
  /\ pc = "failed"
  /\ failedAt = "fetch"
  /\ Len(fetch) >= 3
  /\ AllSettled
  /\ fetch[1] = "failed"
  /\ fetch[2] = "ok"
  /\ fetch[3] = "ok"

----------------------------------------------------------------------------
(* The composite raster *)

\* C26: the composite canvas is cols * tileSize by rows * tileSize and tile (x, y) is
\* drawn at ((x - minX) * tileSize, (y - minY) * tileSize) with tileSize by tileSize
\* pixels, where tileSize is 512 when the render is retina and 256 when it is not
C26_CompositeUsesRenderTileSize ==
  canvas # <<>> =>
    LET tiles == fetchedTileGrid.tiles
        xs == {tiles[i].coord.x : i \in 1..Len(tiles)}
        ys == {tiles[i].coord.y : i \in 1..Len(tiles)}
        tileSize == IF config.retina THEN 512 ELSE 256
    IN  /\ canvas[1].op = "createCanvas"
        /\ canvas[1].width = R((SeqMax(xs) - SeqMin(xs) + 1) * tileSize)
        /\ canvas[1].height = R((SeqMax(ys) - SeqMin(ys) + 1) * tileSize)
        /\ \A i \in 1..Len(tiles) :
             /\ canvas[1 + i].image = tiles[i].buffer
             /\ canvas[1 + i].x = R((tiles[i].coord.x - SeqMin(xs)) * tileSize)
             /\ canvas[1 + i].y = R((tiles[i].coord.y - SeqMin(ys)) * tileSize)
             /\ canvas[1 + i].width = R(tileSize)
             /\ canvas[1 + i].height = R(tileSize)
             /\ tiles[i].buffer.size = tileSize

\* C27: geoBoundsToPixelBounds gives no pixel rectangle for target bounds of zero area:
\* the crop of such bounds ends with an invalid-bounds error, raised by the conversion
\* or at the latest by the validation of its result
C27_ZeroAreaBoundsRejected ==
  pc = "cropped" /\ ZeroArea(tileGrid.targetBounds) =>
    /\ stitching.err # NoError
    /\ stitching.pixelBounds.minX >= stitching.pixelBounds.maxX
       \/ stitching.pixelBounds.minY >= stitching.pixelBounds.maxY

\* C28: for target bounds inside the bounds of the tile grid the pixel rectangle of the
\* crop contains the exact image of the target and exceeds it by less than one pixel on
\* each side: minX and minY are at most the exact left and top edge and more than the
\* edge minus one, maxX and maxY are at least the exact right and bottom edge and less
\* than the edge plus one; the crop drawn from the composite is that rectangle
C28_CropContainsTarget ==
  pc = "cropped" /\ Contains(tileGrid.tileBounds, tileGrid.targetBounds) =>
    LET target == tileGrid.targetBounds
        p == stitching.pixelBounds
        lo == latLngToPixel([lat |-> target.minLat, lng |-> target.minLng], tileGrid.tileBounds,
                            stitching.fullWidth, stitching.fullHeight, config.zoom, FALSE)
        hi == latLngToPixel([lat |-> target.maxLat, lng |-> target.maxLng], tileGrid.tileBounds,
                            stitching.fullWidth, stitching.fullHeight, config.zoom, FALSE)
        crop == stitching.canvas[Len(stitching.canvas)]
    IN  /\ RLe(R(p.minX), lo.x) /\ RLt(lo.x, R(p.minX + 1))
        /\ RLe(R(p.minY), hi.y) /\ RLt(hi.y, R(p.minY + 1))
        /\ RLe(hi.x, R(p.maxX)) /\ RLt(R(p.maxX - 1), hi.x)
        /\ RLe(lo.y, R(p.maxY)) /\ RLt(R(p.maxY - 1), lo.y)
        /\ crop = Call("drawImage", FullCanvas, R(p.minX), R(p.minY),
                       R(p.maxX - p.minX), R(p.maxY - p.minY))

C28_Witness ==
  /\ pc = "cropped"
  /\ Contains(tileGrid.tileBounds, tileGrid.targetBounds)
  /\ PositiveArea(tileGrid.targetBounds)
  /\ Len(tileGrid.tiles) >= 4
  /\ stitching.err = NoError
  /\ LET target == tileGrid.targetBounds
         lo == latLngToPixel([lat |-> target.minLat, lng |-> target.minLng], tileGrid.tileBounds,
                             stitching.fullWidth, stitching.fullHeight, config.zoom, FALSE)
         hi == latLngToPixel([lat |-> target.maxLat, lng |-> target.maxLng], tileGrid.tileBounds,
                             stitching.fullWidth, stitching.fullHeight, config.zoom, FALSE)
     IN  /\ RLt(R(stitching.pixelBounds.minX), lo.x)
         /\ RLt(hi.x, R(stitching.pixelBounds.maxX))
         /\ RLt(R(stitching.pixelBounds.minY), hi.y)
         /\ RLt(lo.y, R(stitching.pixelBounds.maxY))

----------------------------------------------------------------------------
(* The path of the trajectory *)

\* C29: for n >= 2 points the path drawn on the map is one moveTo to the first projected
\* point followed by n - 1 lineTo, one for each further point in the order of the input,
\* and the pixel points of the result are n, the i-th being that of the i-th point; a
\* point equal to the one before it keeps its lineTo and its entry
C29_PathFollowsPoints ==
  pc \in {"formatting", "done"} /\ Len(gpsPoints) >= 2 =>
    LET n == Len(gpsPoints)
        path == SelectSeq(canvas, LAMBDA c : c.op \in {"moveTo", "lineTo"})
    IN  /\ Len(path) = n
        /\ Len(projection) = n
        /\ path[1].op = "moveTo"
        /\ \A i \in 2..n : path[i].op = "lineTo"
        /\ \A i \in 1..n :
             /\ path[i].x = projection[i].x
             /\ path[i].y = projection[i].y
             /\ projection[i] = PixelPoints(<<gpsPoints[i]>>, stitching.bounds,
                                            stitching.imageWidth, stitching.imageHeight,
                                            zoom, FALSE)[1]
        /\ pc = "done" =>
             /\ Len(result.points) = n
             /\ \A i \in 1..n :
                  result.points[i] = PixelPoints(<<gpsPoints[i]>>, stitching.bounds,
                                                 R(targetWidth(config)), R(targetHeight(config)),
                                                 zoom, config.retina)[1]

C29_Witness ==
  /\ pc = "done"
  /\ Len(gpsPoints) = 3
  /\ gpsPoints[1] = gpsPoints[2]
  /\ gpsPoints[2] # gpsPoints[3]
  /\ IsFinite(projection[3].y)
  /\ projection[1] # projection[3]
  /\ Len(SelectSeq(canvas, LAMBDA c : c.op = "lineTo")) = 2
  /\ result.points[1] = result.points[2]

----------------------------------------------------------------------------
(* The expansion of bound2 *)

\* C30: applyExpansionRegion moves the edge of each direction that is set by the range
\* of bound2 times the percentage (maxLat up, minLat down, minLng left, maxLng right) and
\* leaves the edge of every omitted direction where bound2 has it; without an
\* ExpansionRegion bound3 is bound2
C30_ExpansionMovesSetEdges ==
  pc \in {"bound3", "failed"}
  /\ (config.expansionRegion = Undefined \/ InRange(config.expansionRegion)) =>
    /\ pc = "bound3"
    /\ LET bound2 == boundary.bound2
           bound3 == boundary.bound3
           e == config.expansionRegion
           latRange == RSub(bound2.maxLat, bound2.minLat)
           lngRange == RSub(bound2.maxLng, bound2.minLng)
       IN  IF e = Undefined THEN bound3 = bound2
           ELSE /\ bound3.maxLat = RAdd(bound2.maxLat, RMul(latRange, OrZero(e.upPercent)))
                /\ bound3.minLat = RSub(bound2.minLat, RMul(latRange, OrZero(e.downPercent)))
                /\ bound3.minLng = RSub(bound2.minLng, RMul(lngRange, OrZero(e.leftPercent)))
                /\ bound3.maxLng = RAdd(bound2.maxLng, RMul(lngRange, OrZero(e.rightPercent)))
====
